---- MODULE Spec2Model ----
(***************************************************************************)
(* Model of upload_download_demo.go: the split / upload / download /       *)
(* verify / combine pipeline of the 0G storage demo.                       *)
(*                                                                         *)
(* Files are sequences of bytes.  Directories are functions from the file  *)
(* index of the "part_%02d.bin" / "downloaded_part_%02d.bin" name to the   *)
(* file's content.  Go slices are TLA+ sequences, so the Go index i is     *)
(* position i+1.  The storage network is a log of the uploads it accepted; *)
(* a transaction hash is the position of the upload in that log.           *)
(***************************************************************************)
EXTENDS Integers, Sequences, FiniteSets, TLC

\* ---------------------------------------------------------------- bounds
MaxLen == 4
MaxByte == 1
MaxFragmentSize == 2
MaxNumberOfParts == 4
MaxBatchSize == 2
MaxMaxRetries == 3
LongMaxRetries == 66
MaxVerifyParts == 2
MaxTimeoutMinutes == 2

VARIABLES
    config,       \* Config: File.FragmentSize, File.NumberOfParts, Upload.BatchSize, Upload.MaxRetries
    inputFile,    \* content of config.File.InputFile
    pc,           \* position of main / UploadParts / uploadSingleFile / DownloadParts
    partsDir,     \* <output>/parts: file index -> content
    partFiles,    \* main: partFiles, the names (file indices) returned by SplitFile
    ctx,          \* UploadParts: ctx, "none" | "live" | "expired"
    now,          \* clock: minutes since UploadParts created ctx (stops when ctx expires)
    deadline,     \* UploadParts: the deadline of ctx, on the same clock
    uploadCtx,    \* uploadSingleFile: the deadline of uploadCtx, on the same clock
    start,        \* UploadParts: start
    end,          \* UploadParts: end
    pos,          \* UploadParts: Go index of partFile in partFiles (range over batch)
    retry,        \* UploadParts: retry
    lastErr,      \* UploadParts: lastErr ("nil" or the error of the attempt)
    waited,       \* duration slept by time.Sleep(backoff) before the current attempt
    txHashes,     \* UploadParts: txHashes
    rootHashes,   \* UploadParts: rootHashes
    rootHash,     \* uploadSingleFile: rootHash
    ret,          \* main: txHashes, rootHashes, err as returned by UploadParts
    err,          \* main: the error that ended the run, or Nil
    netLog,       \* storage network: accepted uploads, in order
    downloadDir,  \* <output>/downloaded_parts: file index -> content
    dl,           \* DownloadParts: i
    dlLog,        \* history: the downloads requested, in order (slot, root, data delivered)
    finalFile,    \* content of <output>/final_file.bin
    verdict,      \* main: what the last VerifyParts call returned
    attempts,     \* history: number of uploadSingleFile calls for the current part file
    attempted,    \* history: part files uploadSingleFile was called for
    cooldowns,    \* history: number of inter-batch time.Sleep(5s)
    netHonest,    \* history: every download so far returned what was uploaded
    stageLog,     \* history: stages started, in order
    stageOk       \* history: stages that returned success

vars == <<config, inputFile, pc, partsDir, partFiles, ctx, now, deadline, uploadCtx, start, end, pos,
          retry, lastErr, waited, txHashes, rootHashes, rootHash, ret, err,
          netLog, downloadDir, dl, dlLog, finalFile, verdict, attempts,
          attempted, cooldowns, netHonest, stageLog, stageOk>>

\* ---------------------------------------------------------------- helpers
Min(a, b) == IF a < b THEN a ELSE b

Bytes == 0..MaxByte

\* An input file of n bytes.  The pipeline never looks inside a file except to
\* take its Merkle root, so the content is the pattern GenerateTestFile
\* writes: byte i is i modulo the number of byte values.  Neighbouring bytes
\* differ, and parts of an even fragment size have equal content.
TestFile(n) == [i \in 1..n |-> (i - 1) % (MaxByte + 1)]

\* core.MerkleRoot: a deterministic, collision-free digest of a file's bytes
\* (bijective base-(MaxByte+2) numeral of the byte string).
RECURSIVE MerkleRoot(_)
MerkleRoot(data) ==
    IF data = <<>> THEN 0
    ELSE MerkleRoot(SubSeq(data, 1, Len(data) - 1)) * (MaxByte + 2) + data[Len(data)] + 1

\* a directory: the empty one, and writing file i
EmptyDir == [i \in {} |-> <<>>]

\* a write under the one-based part number instead of the index
WriteFile_oneBased(dir, i, data) ==
    [j \in (DOMAIN dir) \cup {i + 1} |-> IF j = i + 1 THEN data ELSE dir[j]]

WriteFile(dir, i, data) ==
    [j \in (DOMAIN dir) \cup {i} |-> IF j = i THEN data ELSE dir[j]]

\* ------------------------------------------------- int64 / time.Duration
\* A time.Duration is an int64 count of nanoseconds.  It is kept as its
\* two's-complement bytes, least significant first, so that products wrap
\* modulo 2^64 as they do in Go.
LimbCount == 8
LimbBase == 256

Limbs == 0..(LimbCount - 1)

\* the int64 of a small non-negative integer (n < 2^31)
Int64Of(n) ==
    [i \in Limbs |-> IF i < 4 THEN (n \div (LimbBase ^ i)) % LimbBase ELSE 0]

\* 2^p as an int64, for 0 <= p <= 62
Int64Pow2(p) ==
    [i \in Limbs |-> IF i = p \div 8 THEN 2 ^ (p % 8) ELSE 0]

MinInt64 == [i \in Limbs |-> IF i = LimbCount - 1 THEN 128 ELSE 0]

MaxInt64 == [i \in Limbs |-> IF i = LimbCount - 1 THEN 127 ELSE 255]

Int64Zero == Int64Of(0)

RECURSIVE MulColumn(_, _, _, _)
MulColumn(a, b, k, i) ==
    IF i > k THEN 0 ELSE a[i] * b[k - i] + MulColumn(a, b, k, i + 1)

RECURSIVE MulCarry(_, _, _)
MulCarry(a, b, k) ==
    IF k < 0 THEN 0
    ELSE (MulColumn(a, b, k, 0) + MulCarry(a, b, k - 1)) \div LimbBase

\* a * b on int64: the low 64 bits of the product
Int64Mul(a, b) ==
    [k \in Limbs |-> (MulColumn(a, b, k, 0) + MulCarry(a, b, k - 1)) % LimbBase]

Int64Neg(a) == a[LimbCount - 1] >= 128

RECURSIVE UnsignedGt(_, _, _)
UnsignedGt(a, b, k) ==
    IF k < 0 THEN FALSE
    ELSE IF a[k] # b[k] THEN a[k] > b[k]
    ELSE UnsignedGt(a, b, k - 1)

\* a > b on int64 (signed)
Int64Gt(a, b) ==
    IF Int64Neg(a) # Int64Neg(b) THEN Int64Neg(b)
    ELSE UnsignedGt(a, b, LimbCount - 1)

\* time.Second, in nanoseconds
Second == Int64Of(1000000000)

Seconds(n) == Int64Mul(Int64Of(n), Second)

\* time.Duration(math.Pow(2, float64(p))): exact while 2^p fits an int64; a
\* float64 that does not fit converts to an implementation-dependent value
\* (0x8000000000000000 on amd64, saturation on arm64).
DurationOfPow2(p) ==
    IF p <= 62 THEN {Int64Pow2(p)} ELSE {MinInt64, MaxInt64}

\* UploadParts: backoff := Duration(Pow(2, retry-1)) * Second, capped at 30s
Backoff(r) ==
    {LET backoff == Int64Mul(d, Second)
     IN  IF Int64Gt(backoff, Seconds(30)) THEN Seconds(30) ELSE backoff
     : d \in DurationOfPow2(r - 1)}

\* time.Sleep(d): a negative or zero duration returns immediately
Sleep(d) == IF Int64Neg(d) THEN Int64Zero ELSE d

\* ------------------------------------------------------------- SplitFile
\* a read that delivers only full buffers, losing a short tail
Read_fullOnly(input, off, size) == IF Len(input) - off >= size THEN size ELSE 0

\* input.Read(buffer) on a regular file at offset off: the bytes read; none
\* (io.EOF) at the end of the file.
Read(input, off, size) == Min(size, Len(input) - off)

RECURSIVE SplitLoop(_, _, _, _, _)
SplitLoop(input, cfg, i, off, parts) ==
    IF i >= cfg.File.NumberOfParts THEN parts
    ELSE LET n == Read(input, off, cfg.File.FragmentSize)
         IN  IF n = 0 THEN parts
             ELSE SplitLoop(input, cfg, i + 1, off + n,
                            Append(parts, SubSeq(input, off + 1, off + n)))

\* the part files SplitFile writes, in order (part i is element i+1)
SplitFile(input, cfg) == SplitLoop(input, cfg, 0, 0, <<>>)

\* a sequence of file contents as a directory, file i holding element i+1
DirOf(parts) == [i \in 0..(Len(parts) - 1) |-> parts[i + 1]]

\* ----------------------------------------------------------- VerifyParts
\* what VerifyParts returns: nil, or the error with the part (Go index) it is
\* about and, for a hash mismatch, the two roots of the message
Verified == [ok |-> TRUE, part |-> -1, kind |-> "nil", expected |-> -1, actual |-> -1]

VerifyErr(i, kind, expected, actual) ==
    [ok |-> FALSE, part |-> i, kind |-> kind, expected |-> expected, actual |-> actual]

\* no call of VerifyParts has returned yet
NoVerdict == [ok |-> FALSE, part |-> -1, kind |-> "none", expected |-> -1, actual |-> -1]

\* a verification that stops after the first part
VerifyLoop_firstOnly(originalParts, oDir, dDir, i) ==
    IF i >= Min(1, Len(originalParts)) THEN Verified
    ELSE IF i \notin DOMAIN dDir
         THEN VerifyErr(i, "merkle_downloaded", -1, -1)
    ELSE IF MerkleRoot(oDir[originalParts[i + 1]]) # MerkleRoot(dDir[i])
         THEN VerifyErr(i, "hash_mismatch", MerkleRoot(oDir[originalParts[i + 1]]),
                        MerkleRoot(dDir[i]))
    ELSE Verified

\* a verification that compares the downloaded part with the root hash of
\* the manifest instead of the recomputed root of the original
RECURSIVE VerifyLoop_trustManifest(_, _, _, _)
VerifyLoop_trustManifest(originalParts, oDir, dDir, i) ==
    IF i >= Len(originalParts) THEN Verified
    ELSE IF i \notin DOMAIN dDir
         THEN VerifyErr(i, "merkle_downloaded", -1, -1)
    ELSE IF i + 1 \in DOMAIN ret.rootHashes /\ ret.rootHashes[i + 1] # MerkleRoot(dDir[i])
         THEN VerifyErr(i, "hash_mismatch", ret.rootHashes[i + 1], MerkleRoot(dDir[i]))
    ELSE VerifyLoop_trustManifest(originalParts, oDir, dDir, i + 1)

\* for i, originalPart := range originalParts: both roots recomputed, compared
RECURSIVE VerifyLoop(_, _, _, _)
VerifyLoop(originalParts, oDir, dDir, i) ==
    IF i >= Len(originalParts) THEN Verified
    ELSE IF originalParts[i + 1] \notin DOMAIN oDir
         THEN VerifyErr(i, "merkle_original", -1, -1)
    ELSE IF i \notin DOMAIN dDir
         THEN VerifyErr(i, "merkle_downloaded", -1, -1)
    ELSE IF MerkleRoot(oDir[originalParts[i + 1]]) # MerkleRoot(dDir[i])
         THEN VerifyErr(i, "hash_mismatch", MerkleRoot(oDir[originalParts[i + 1]]),
                        MerkleRoot(dDir[i]))
    ELSE VerifyLoop(originalParts, oDir, dDir, i + 1)

VerifyParts(originalParts, oDir, dDir) == VerifyLoop(originalParts, oDir, dDir, 0)

\* ---------------------------------------------------------- CombineParts
\* a combine that writes the parts from the last to the first
RECURSIVE CombineLoop_backwards(_, _, _, _)
CombineLoop_backwards(dDir, n, i, output) ==
    IF i >= n THEN [ok |-> TRUE, part |-> i, output |-> output]
    ELSE IF i \notin DOMAIN dDir THEN [ok |-> FALSE, part |-> i, output |-> output]
    ELSE CombineLoop_backwards(dDir, n, i + 1, dDir[i] \o output)

RECURSIVE CombineLoop(_, _, _, _)
CombineLoop(dDir, n, i, output) ==
    IF i >= n THEN [ok |-> TRUE, part |-> i, output |-> output]
    ELSE IF i \notin DOMAIN dDir THEN [ok |-> FALSE, part |-> i, output |-> output]
    ELSE CombineLoop(dDir, n, i + 1, output \o dDir[i])

\* the bytes written to the output file, and whether every part was opened
CombineParts(dDir, cfg) == CombineLoop(dDir, cfg.File.NumberOfParts, 0, <<>>)

\* ------------------------------------------------------- storage network
\* indexerClient.Download(root): the uploaded data with that root, if any
Stored(log, root) == {log[k].data : k \in {j \in 1..Len(log) : MerkleRoot(log[j].data) = root}}

\* what a download can deliver instead of the uploaded bytes
Corrupt(data) ==
    {IF data = <<>> THEN <<0>> ELSE [data EXCEPT ![1] = (data[1] + 1) % (MaxByte + 1)],
     IF data = <<>> THEN <<0>> ELSE SubSeq(data, 1, Len(data) - 1)} \ {data}

\* ---------------------------------------------------------------- context
\* the deadline of context.Background(): none
NoDeadline == -1

\* a child context that forgets the deadline of its parent
WithTimeout_detached(parent, t, timeout) == t + timeout

\* context.WithTimeout(parent, timeout) called at time t: the deadline of the
\* child is t + timeout, or the parent's deadline when that is earlier
WithTimeout(parent, t, timeout) ==
    IF parent = NoDeadline THEN t + timeout ELSE Min(parent, t + timeout)

\* defer cancel(): the contexts of UploadParts are released when it returns
Cancel ==
    /\ ctx' = "none"
    /\ now' = 0
    /\ deadline' = NoDeadline
    /\ uploadCtx' = NoDeadline

\* ------------------------------------------------------------------ Init
Configs(retries, timeouts) ==
    [File   : [FragmentSize : 1..MaxFragmentSize, NumberOfParts : 1..MaxNumberOfParts],
     Upload : [BatchSize : 1..MaxBatchSize, MaxRetries : retries,
               TimeoutMinutes : timeouts]]

\* a nil error value
Nil == [stage |-> "nil"]

NoReturn == [txHashes |-> <<>>, rootHashes |-> <<>>, err |-> Nil]

InitRun ==
    /\ pc = "main_split"
    /\ partsDir = EmptyDir
    /\ partFiles = <<>>
    /\ ctx = "none"
    /\ now = 0
    /\ deadline = NoDeadline
    /\ uploadCtx = NoDeadline
    /\ start = 0
    /\ end = 0
    /\ pos = 0
    /\ retry = 0
    /\ lastErr = "nil"
    /\ waited = Int64Zero
    /\ txHashes = <<>>
    /\ rootHashes = <<>>
    /\ rootHash = 0
    /\ ret = NoReturn
    /\ err = Nil
    /\ netLog = <<>>
    /\ downloadDir = EmptyDir
    /\ dl = 0
    /\ dlLog = <<>>
    /\ finalFile = <<>>
    /\ verdict = NoVerdict
    /\ attempts = 0
    /\ attempted = {}
    /\ cooldowns = 0
    /\ netHonest = TRUE
    /\ stageLog = <<>>
    /\ stageOk = {}

Init ==
    /\ config \in Configs(0..MaxMaxRetries, {1})
    /\ inputFile \in {TestFile(n) : n \in 0..MaxLen}
    /\ InitRun

\* one two-part file, uploaded with a large retry budget
InitLong ==
    /\ config \in {c \in Configs({LongMaxRetries}, {1}) :
                      c.File.FragmentSize = 1 /\ c.Upload.BatchSize = 1
                      /\ c.File.NumberOfParts \in {2, 3}}
    /\ inputFile = TestFile(2)
    /\ InitRun

\* ------------------------------------------------------------------ main
\* a driver that reports a verification error and goes on
Fail_verifyGoesOn(stage, cause) ==
    /\ pc' = IF stage = "verify" THEN "main_combine" ELSE "failed"
    /\ err' = [stage |-> stage, cause |-> cause]

\* if err != nil { fmt.Printf("Failed: %v", err); os.Exit(1) }
Fail(stage, cause) ==
    /\ pc' = "failed"
    /\ err' = [stage |-> stage, cause |-> cause]

\* Step 2: partFiles, err := demo.SplitFile(...)
main_SplitFile ==
    /\ pc = "main_split"
    /\ stageLog' = Append(stageLog, "split")
    /\ \/ /\ partsDir' = DirOf(SplitFile(inputFile, config))
          /\ partFiles' = [k \in 1..Len(SplitFile(inputFile, config)) |-> k - 1]
          /\ stageOk' = stageOk \cup {"split"}
          /\ pc' = "main_upload"
          /\ UNCHANGED err
       \/ /\ Fail("split", "io")
          /\ UNCHANGED <<partsDir, partFiles, stageOk>>
    /\ UNCHANGED <<config, inputFile, ctx, start, end, pos, retry, lastErr, waited,
                   txHashes, rootHashes, rootHash, ret, netLog, downloadDir, dl,
                   finalFile, attempts, attempted, cooldowns, netHonest>>
    /\ UNCHANGED dlLog
    /\ UNCHANGED verdict
    /\ UNCHANGED <<now, deadline, uploadCtx>>

\* ----------------------------------------------------------- UploadParts
unchangedByUpload ==
    UNCHANGED <<config, inputFile, partsDir, partFiles, downloadDir, dl, dlLog,
                finalFile, verdict, netHonest>>

\* Step 3: the call; ctx := context.WithTimeout(...), empty hash lists
UploadParts_Call ==
    /\ pc = "main_upload"
    /\ stageLog' = Append(stageLog, "upload")
    /\ ctx' = "live"
    /\ now' = 0
    /\ deadline' = WithTimeout(NoDeadline, 0, config.Upload.TimeoutMinutes)
    /\ UNCHANGED uploadCtx
    /\ txHashes' = <<>>
    /\ rootHashes' = <<>>
    /\ start' = 0
    /\ pc' = "up_batch"
    /\ unchangedByUpload
    /\ UNCHANGED <<end, pos, retry, lastErr, waited, rootHash, ret, err, netLog,
                   attempts, attempted, cooldowns, stageOk>>

\* what UploadParts hands back when it returns without an error
ReturnOk(txs, roots) == [txHashes |-> txs, rootHashes |-> roots, err |-> Nil]

\* a failure return that hands the collected receipts back with the error
ReturnErr_partial(txs, roots, partFile, cause) ==
    [txHashes |-> txs, rootHashes |-> roots,
     err |-> [stage |-> "upload", part |-> partFile, cause |-> cause]]

\* what UploadParts hands back when a part exhausted its retries
ReturnErr(txs, roots, partFile, cause) ==
    [txHashes |-> <<>>, rootHashes |-> <<>>,
     err |-> [stage |-> "upload", part |-> partFile, cause |-> cause]]

\* for start := 0; start < len(partFiles); start += batchSize
UploadParts_Batch ==
    /\ pc = "up_batch"
    /\ IF start < Len(partFiles)
       THEN /\ end' = Min(start + config.Upload.BatchSize, Len(partFiles))
            /\ pos' = start
            /\ pc' = "up_part"
            /\ UNCHANGED <<ctx, ret, stageOk, now, deadline, uploadCtx>>
       ELSE /\ ret' = ReturnOk(txHashes, rootHashes)
            /\ Cancel
            /\ stageOk' = stageOk \cup {"upload"}
            /\ pc' = "main_download"
            /\ UNCHANGED <<end, pos>>
    /\ unchangedByUpload
    /\ UNCHANGED <<start, retry, lastErr, waited, txHashes, rootHashes, rootHash,
                   err, netLog, attempts, attempted, cooldowns, stageLog>>

\* for _, partFile := range batch
UploadParts_Part ==
    /\ pc = "up_part"
    /\ IF pos < end
       THEN /\ lastErr' = "nil"
            /\ retry' = 0
            /\ attempts' = 0
            /\ pc' = "up_retry"
       ELSE /\ pc' = "up_cooldown"
            /\ UNCHANGED <<lastErr, retry, attempts>>
    /\ unchangedByUpload
    /\ UNCHANGED <<ctx, start, end, pos, waited, txHashes, rootHashes, rootHash,
                   ret, err, netLog, attempted, cooldowns, stageLog, stageOk>>
    /\ UNCHANGED <<now, deadline, uploadCtx>>

\* for retry := 0; retry < MaxRetries; retry++, with the backoff sleep
UploadParts_Retry ==
    /\ pc = "up_retry"
    /\ IF retry < config.Upload.MaxRetries
       THEN /\ IF retry > 0
               THEN \E backoff \in Backoff(retry) : waited' = Sleep(backoff)
               ELSE waited' = Int64Zero
            /\ pc' = "us_merkle"
       ELSE /\ pc' = "up_check"
            /\ UNCHANGED waited
    /\ unchangedByUpload
    /\ UNCHANGED <<ctx, start, end, pos, retry, lastErr, txHashes, rootHashes,
                   rootHash, ret, err, netLog, attempts, attempted, cooldowns,
                   stageLog, stageOk>>
    /\ UNCHANGED <<now, deadline, uploadCtx>>

\* a receipt written over the last one of the list
append_overLast(list, hash) ==
    IF list = <<>> THEN <<hash>> ELSE [list EXCEPT ![Len(list)] = hash]

\* *txHashes = append(*txHashes, txHash), *rootHashes = append(*rootHashes, rootHash)
append(list, hash) == Append(list, hash)

\* the attempt returned err: lastErr = err; continue
AttemptFailed(cause) ==
    /\ lastErr' = cause
    /\ retry' = retry + 1
    /\ pc' = "up_retry"

\* an attempt that goes on to the upload after core.MerkleRoot failed
uploadSingleFile_MerkleRoot_errIgnored ==
    /\ pc = "us_merkle"
    /\ attempts' = attempts + 1
    /\ attempted' = attempted \cup {partFiles[pos + 1]}
    /\ \/ rootHash' = MerkleRoot(partsDir[partFiles[pos + 1]])
       \/ UNCHANGED rootHash
    /\ pc' = "us_upload"
    /\ unchangedByUpload
    /\ UNCHANGED <<lastErr, retry, ctx, now, deadline, uploadCtx, start, end, pos, waited,
                   txHashes, rootHashes, ret, err, netLog, cooldowns, stageLog, stageOk>>

\* uploadSingleFile: rootHash, err := core.MerkleRoot(partFile)
uploadSingleFile_MerkleRoot ==
    /\ pc = "us_merkle"
    /\ attempts' = attempts + 1
    /\ attempted' = attempted \cup {partFiles[pos + 1]}
    /\ \/ /\ rootHash' = MerkleRoot(partsDir[partFiles[pos + 1]])
          /\ pc' = "us_upload"
          /\ UNCHANGED <<lastErr, retry>>
       \/ /\ AttemptFailed("merkle")
          /\ UNCHANGED rootHash
    /\ unchangedByUpload
    /\ UNCHANGED <<ctx, start, end, pos, waited, txHashes, rootHashes, ret, err,
                   netLog, cooldowns, stageLog, stageOk>>
    /\ UNCHANGED <<now, deadline, uploadCtx>>

\* an attempt that appends its root hash before it calls Upload
uploadSingleFile_Upload_rootFirst ==
    /\ pc = "us_upload"
    /\ \/ /\ AttemptFailed("open")
          /\ UNCHANGED <<uploadCtx, netLog, txHashes, rootHashes>>
       \/ /\ uploadCtx' = WithTimeout(deadline, now, config.Upload.TimeoutMinutes)
          /\ now >= uploadCtx'
          /\ AttemptFailed("timeout")
          /\ rootHashes' = append(rootHashes, rootHash)
          /\ UNCHANGED <<netLog, txHashes>>
       \/ /\ uploadCtx' = WithTimeout(deadline, now, config.Upload.TimeoutMinutes)
          /\ now < uploadCtx'
          /\ AttemptFailed("network")
          /\ rootHashes' = append(rootHashes, rootHash)
          /\ UNCHANGED <<netLog, txHashes>>
       \/ /\ uploadCtx' = WithTimeout(deadline, now, config.Upload.TimeoutMinutes)
          /\ now < uploadCtx'
          /\ netLog' = Append(netLog, [part |-> partFiles[pos + 1],
                                       data |-> partsDir[partFiles[pos + 1]]])
          /\ txHashes' = append(txHashes, Len(netLog) + 1)
          /\ rootHashes' = append(rootHashes, rootHash)
          /\ lastErr' = "nil"
          /\ pc' = "up_check"
          /\ UNCHANGED retry
    /\ unchangedByUpload
    /\ UNCHANGED <<ctx, now, deadline, start, end, pos, waited, rootHash, ret, err,
                   attempts, attempted, cooldowns, stageLog, stageOk>>

\* uploadSingleFile: core.Open, indexerClient.Upload(uploadCtx, ...), appends
uploadSingleFile_Upload ==
    /\ pc = "us_upload"
    /\ \/ /\ AttemptFailed("open")
          /\ UNCHANGED <<uploadCtx, netLog, txHashes, rootHashes>>
       \/ /\ uploadCtx' = WithTimeout(deadline, now, config.Upload.TimeoutMinutes)
          /\ now >= uploadCtx'
          /\ AttemptFailed("timeout")
          /\ UNCHANGED <<netLog, txHashes, rootHashes>>
       \/ /\ uploadCtx' = WithTimeout(deadline, now, config.Upload.TimeoutMinutes)
          /\ now < uploadCtx'
          /\ AttemptFailed("network")
          /\ UNCHANGED <<netLog, txHashes, rootHashes>>
       \/ /\ uploadCtx' = WithTimeout(deadline, now, config.Upload.TimeoutMinutes)
          /\ now < uploadCtx'
          /\ netLog' = Append(netLog, [part |-> partFiles[pos + 1],
                                       data |-> partsDir[partFiles[pos + 1]]])
          /\ txHashes' = append(txHashes, Len(netLog) + 1)
          /\ rootHashes' = append(rootHashes, rootHash)
          /\ lastErr' = "nil"
          /\ pc' = "up_check"
          /\ UNCHANGED retry
    /\ unchangedByUpload
    /\ UNCHANGED <<ctx, now, deadline, start, end, pos, waited, rootHash, ret, err,
                   attempts, attempted, cooldowns, stageLog, stageOk>>

\* a check that moves on to the next part file whatever lastErr is
UploadParts_Check_goesOn ==
    /\ pc = "up_check"
    /\ pos' = pos + 1
    /\ pc' = "up_part"
    /\ unchangedByUpload
    /\ UNCHANGED <<ret, ctx, err, now, deadline, uploadCtx, start, end, retry, lastErr,
                   waited, txHashes, rootHashes, rootHash, netLog, attempts, attempted,
                   cooldowns, stageLog, stageOk>>

\* if lastErr != nil { return nil, nil, fmt.Errorf(...) }
UploadParts_Check ==
    /\ pc = "up_check"
    /\ IF lastErr # "nil"
       THEN /\ ret' = ReturnErr(txHashes, rootHashes, partFiles[pos + 1], lastErr)
            /\ Cancel
            /\ Fail("upload", lastErr)
            /\ UNCHANGED pos
       ELSE /\ pos' = pos + 1
            /\ pc' = "up_part"
            /\ UNCHANGED <<ret, ctx, err, now, deadline, uploadCtx>>
    /\ unchangedByUpload
    /\ UNCHANGED <<start, end, retry, lastErr, waited, txHashes, rootHashes,
                   rootHash, netLog, attempts, attempted, cooldowns, stageLog, stageOk>>

\* a batch loop that does not advance start
UploadParts_Cooldown_stays ==
    /\ pc = "up_cooldown"
    /\ cooldowns' = IF end < Len(partFiles) THEN cooldowns + 1 ELSE cooldowns
    /\ pc' = "up_batch"
    /\ unchangedByUpload
    /\ UNCHANGED <<start, ctx, end, pos, retry, lastErr, waited, txHashes, rootHashes,
                   rootHash, ret, err, netLog, attempts, attempted, stageLog, stageOk,
                   now, deadline, uploadCtx>>

\* if end < len(partFiles) { time.Sleep(5 * time.Second) }; start += batchSize
UploadParts_Cooldown ==
    /\ pc = "up_cooldown"
    /\ cooldowns' = IF end < Len(partFiles) THEN cooldowns + 1 ELSE cooldowns
    /\ start' = start + config.Upload.BatchSize
    /\ pc' = "up_batch"
    /\ unchangedByUpload
    /\ UNCHANGED <<ctx, end, pos, retry, lastErr, waited, txHashes, rootHashes,
                   rootHash, ret, err, netLog, attempts, attempted, stageLog, stageOk>>
    /\ UNCHANGED <<now, deadline, uploadCtx>>

\* a minute passes while ctx is live; ctx expires when its deadline is reached
Tick ==
    /\ ctx = "live"
    /\ now' = now + 1
    /\ ctx' = IF now + 1 >= deadline THEN "expired" ELSE "live"
    /\ UNCHANGED <<config, inputFile, pc, partsDir, partFiles, deadline, uploadCtx, start,
                   end, pos, retry, lastErr, waited, txHashes, rootHashes, rootHash, ret,
                   err, netLog, downloadDir, dl, dlLog, finalFile, verdict, attempts,
                   attempted, cooldowns, netHonest, stageLog, stageOk>>

\* --------------------------------------------------------- DownloadParts
unchangedByDownload ==
    UNCHANGED <<config, inputFile, partsDir, partFiles, ctx, start, end, pos, retry,
                lastErr, waited, txHashes, rootHashes, rootHash, ret, netLog,
                finalFile, attempts, attempted, cooldowns>>

\* one call of indexerClient.Download: the slot of the output file name, the
\* root asked for, the data written (none when the call failed)
Request(slot, root, data) == [slot |-> slot, root |-> root, data |-> data]

\* Step 4: the call, DownloadParts(rootHashes, downloadDir)
DownloadParts_Call ==
    /\ pc = "main_download"
    /\ stageLog' = Append(stageLog, "download")
    /\ dl' = 0
    /\ dlLog' = <<>>
    /\ pc' = "dl_loop"
    /\ unchangedByDownload
    /\ UNCHANGED <<err, downloadDir, netHonest, stageOk>>
    /\ UNCHANGED verdict
    /\ UNCHANGED <<now, deadline, uploadCtx>>

\* for i, rootHash := range rootHashes { indexerClient.Download(...) }
DownloadParts_Loop ==
    /\ pc = "dl_loop"
    /\ IF dl < Len(ret.rootHashes)
       THEN \/ \E data \in Stored(netLog, ret.rootHashes[dl + 1]) :
                 /\ downloadDir' = WriteFile(downloadDir, dl, data)
                 /\ dlLog' = Append(dlLog, Request(dl, ret.rootHashes[dl + 1], data))
                 /\ dl' = dl + 1
                 /\ UNCHANGED <<pc, err, netHonest, stageOk>>
            \/ \E data \in Stored(netLog, ret.rootHashes[dl + 1]) :
                 \E bad \in Corrupt(data) :
                    /\ downloadDir' = WriteFile(downloadDir, dl, bad)
                    /\ dlLog' = Append(dlLog, Request(dl, ret.rootHashes[dl + 1], bad))
                    /\ netHonest' = FALSE
                    /\ dl' = dl + 1
                    /\ UNCHANGED <<pc, err, stageOk>>
            \/ /\ dlLog' = Append(dlLog, Request(dl, ret.rootHashes[dl + 1], <<>>))
               /\ pc' = "failed"
               /\ err' = [stage |-> "download", part |-> dl + 1, cause |-> "network"]
               /\ UNCHANGED <<downloadDir, dl, netHonest, stageOk>>
       ELSE /\ stageOk' = stageOk \cup {"download"}
            /\ pc' = "main_verify"
            /\ UNCHANGED <<downloadDir, dl, dlLog, err, netHonest>>
    /\ unchangedByDownload
    /\ UNCHANGED stageLog
    /\ UNCHANGED verdict
    /\ UNCHANGED <<now, deadline, uploadCtx>>

\* ------------------------------------------------ VerifyParts, CombineParts
\* Step 5: VerifyParts(partFiles, downloadDir)
main_VerifyParts ==
    /\ pc = "main_verify"
    /\ stageLog' = Append(stageLog, "verify")
    /\ IF VerifyParts(partFiles, partsDir, downloadDir).ok
       THEN /\ stageOk' = stageOk \cup {"verify"}
            /\ pc' = "main_combine"
            /\ UNCHANGED err
       ELSE /\ Fail("verify", VerifyParts(partFiles, partsDir, downloadDir).kind)
            /\ UNCHANGED stageOk
    /\ verdict' = VerifyParts(partFiles, partsDir, downloadDir)
    /\ unchangedByDownload
    /\ UNCHANGED <<downloadDir, dl, dlLog, netHonest>>
    /\ UNCHANGED <<now, deadline, uploadCtx>>

\* Step 6: CombineParts(downloadDir, finalFile)
main_CombineParts ==
    /\ pc = "main_combine"
    /\ stageLog' = Append(stageLog, "combine")
    /\ finalFile' = CombineParts(downloadDir, config).output
    /\ IF CombineParts(downloadDir, config).ok
       THEN /\ stageOk' = stageOk \cup {"combine"}
            /\ pc' = "done"
            /\ UNCHANGED err
       ELSE /\ Fail("combine", "open")
            /\ UNCHANGED stageOk
    /\ UNCHANGED <<config, inputFile, partsDir, partFiles, ctx, start, end, pos,
                   retry, lastErr, waited, txHashes, rootHashes, rootHash, ret,
                   netLog, downloadDir, dl, attempts, attempted, cooldowns, netHonest>>
    /\ UNCHANGED dlLog
    /\ UNCHANGED verdict
    /\ UNCHANGED <<now, deadline, uploadCtx>>

Next ==
    \/ main_SplitFile
    \/ UploadParts_Call
    \/ UploadParts_Batch
    \/ UploadParts_Part
    \/ UploadParts_Retry
    \/ uploadSingleFile_MerkleRoot
    \/ uploadSingleFile_Upload
    \/ UploadParts_Check
    \/ UploadParts_Cooldown
    \/ Tick
    \/ DownloadParts_Call
    \/ DownloadParts_Loop
    \/ main_VerifyParts
    \/ main_CombineParts

Spec == Init /\ [][Next]_vars

\* ------------------------------------------- VerifyParts called on its own
\* VerifyParts is an exported method: its caller passes any list of original
\* part files and any download directory (the directory is reused between
\* runs, so it can hold more or fewer files than there are originals).
VerifyContents == {TestFile(1)} \cup Corrupt(TestFile(1))

Dirs(n) == [0..(n - 1) -> VerifyContents]

\* the root hashes a manifest can carry for n parts: the true ones, or the
\* root of some other content for every part
Manifests(oDir, n) ==
    {[k \in 1..n |-> MerkleRoot(oDir[k - 1])]}
        \cup {[k \in 1..n |-> MerkleRoot(c)] : c \in VerifyContents}

InitVerify ==
    /\ config \in {c \in Configs({1}, {1}) : c.File.FragmentSize = 1 /\ c.Upload.BatchSize = 1
                                        /\ c.File.NumberOfParts = 1}
    /\ inputFile = TestFile(1)
    /\ \E n \in 0..MaxVerifyParts :
          /\ partsDir \in Dirs(n)
          /\ partFiles = [k \in 1..n |-> k - 1]
          /\ \E roots \in Manifests(partsDir, n) :
                ret = [txHashes |-> [k \in 1..n |-> k], rootHashes |-> roots, err |-> Nil]
    /\ downloadDir \in UNION {Dirs(m) : m \in 0..MaxVerifyParts}
    /\ pc = "main_verify"
    /\ stageLog = <<"split", "upload", "download">>
    /\ stageOk = {"split", "upload", "download"}
    /\ ctx = "none"
    /\ now = 0
    /\ deadline = NoDeadline
    /\ uploadCtx = NoDeadline
    /\ start = 0
    /\ end = 0
    /\ pos = 0
    /\ retry = 0
    /\ lastErr = "nil"
    /\ waited = Int64Zero
    /\ txHashes = <<>>
    /\ rootHashes = <<>>
    /\ rootHash = 0
    /\ err = Nil
    /\ netLog = <<>>
    /\ dl = 0
    /\ dlLog = <<>>
    /\ finalFile = <<>>
    /\ verdict = NoVerdict
    /\ attempts = 0
    /\ attempted = {}
    /\ cooldowns = 0
    /\ netHonest = TRUE

NextVerify == main_VerifyParts

SpecVerify == InitVerify /\ [][NextVerify]_vars

SpecLong == InitLong /\ [][Next]_vars

\* the steps of UploadParts and of the uploadSingleFile calls it makes
UploadStep ==
    \/ UploadParts_Batch
    \/ UploadParts_Part
    \/ UploadParts_Retry
    \/ uploadSingleFile_MerkleRoot
    \/ uploadSingleFile_Upload
    \/ UploadParts_Check
    \/ UploadParts_Cooldown

\* every number of one-byte part files, every batch size and retry budget
InitFair ==
    /\ config \in {c \in Configs(0..MaxMaxRetries, {1}) : c.File.FragmentSize = 1}
    /\ inputFile \in {TestFile(n) : n \in 0..MaxLen}
    /\ InitRun

\* every upload attempt, backoff sleep and cooldown sleep returns, so that
\* UploadParts takes its next step
SpecFair == InitFair /\ [][Next]_vars /\ WF_vars(UploadStep)

\* two one-byte parts, uploaded under every timeout of the bound
InitClock ==
    /\ config \in {c \in Configs({1, 2}, 1..MaxTimeoutMinutes) :
                      c.File.FragmentSize = 1 /\ c.File.NumberOfParts = 2}
    /\ inputFile = TestFile(2)
    /\ InitRun

SpecClock == InitClock /\ [][Next]_vars

\* ================================================================ claims
Stages == <<"split", "upload", "download", "verify", "combine">>

Started(stage) == \E k \in 1..Len(stageLog) : stageLog[k] = stage

UploadPcs == {"up_batch", "up_part", "up_retry", "us_merkle", "us_upload",
              "up_check", "up_cooldown"}

\* UploadParts was called and has returned
UploadReturned == Started("upload") /\ pc \notin UploadPcs

UploadFailed == pc = "failed" /\ err.stage = "upload"

\* the network accepted an upload of part file f and its receipt is in the lists
HasReceipt(f) == \E k \in 1..Len(txHashes) : netLog[txHashes[k]].part = f

RECURSIVE Concat(_, _)
Concat(dir, n) == IF n = 0 THEN <<>> ELSE Concat(dir, n - 1) \o dir[n - 1]

RECURSIVE TotalLen(_, _)
TotalLen(dir, n) == IF n = 0 THEN 0 ELSE TotalLen(dir, n - 1) + Len(dir[n - 1])

CeilDiv(a, b) == (a + b - 1) \div b

\* ---------------------------------------------------------------- C1
\* C1: whenever UploadParts returns success, the returned txHashes and
\* rootHashes hold exactly one receipt per part file, and receipt i is the
\* receipt of part file i (its upload, its Merkle root); no part is skipped.
C1_ManifestComplete ==
    (UploadReturned /\ "upload" \in stageOk) =>
        /\ Len(ret.txHashes) = Len(partFiles)
        /\ Len(ret.rootHashes) = Len(partFiles)
        /\ \A k \in 1..Len(partFiles) :
              /\ netLog[ret.txHashes[k]].part = partFiles[k]
              /\ ret.rootHashes[k] = MerkleRoot(partsDir[partFiles[k]])

\* ---------------------------------------------------------------- C2
\* C2: when UploadParts has returned and some part file never got a receipt
\* (every upload attempt of it failed), the first such part was attempted
\* exactly MaxRetries times, the returned error names it and carries the
\* error of its last attempt, and no later part was attempted.
C2_RetryBound ==
    UploadReturned =>
        \A k \in 1..Len(partFiles) :
            (~HasReceipt(partFiles[k]) /\ \A j \in 1..(k - 1) : HasReceipt(partFiles[j])) =>
                /\ attempts = config.Upload.MaxRetries
                /\ ret.err # Nil
                /\ ret.err = [stage |-> "upload", part |-> partFiles[k], cause |-> lastErr]
                /\ lastErr # "nil"
                /\ \A j \in (k + 1)..Len(partFiles) : partFiles[j] \notin attempted

\* ---------------------------------------------------------------- C3
\* C3 (as claimed): when UploadParts fails because a part exhausted its
\* retries, the receipts collected so far are returned with the error.
C3_PartialManifestReturned ==
    UploadFailed =>
        /\ ret.txHashes = txHashes
        /\ ret.rootHashes = rootHashes

\* C3 (amended): when UploadParts fails because a part exhausted its retries
\* it returns the error only, with both hash lists nil; the receipts of the
\* parts before the failing one (all of them, in order) stay in the local
\* lists, which are dropped.
C3_FailureReturnsNoManifest ==
    UploadFailed =>
        /\ ret.txHashes = <<>>
        /\ ret.rootHashes = <<>>
        /\ ret.err = [stage |-> "upload", part |-> partFiles[pos + 1], cause |-> lastErr]
        /\ Len(txHashes) = pos
        /\ Len(rootHashes) = pos
        /\ \A k \in 1..pos : netLog[txHashes[k]].part = partFiles[k]

\* part index 2 of 4 failed all of its 3 attempts after parts 0 and 1 were uploaded
C3_Witness ==
    /\ UploadFailed
    /\ Len(partFiles) = 4
    /\ pos = 2
    /\ config.Upload.MaxRetries = 3
    /\ attempts = 3
    /\ Len(txHashes) = 2

\* ---------------------------------------------------------------- C4
\* C4: once the overall upload deadline has expired, no upload attempt is
\* started and no backoff wait is made.
C4_NoWorkAfterDeadline ==
    [][ctx = "expired" =>
          /\ attempts' <= attempts
          /\ ~(pc = "up_retry" /\ retry > 0 /\ pc' = "us_merkle")]_vars

\* ---------------------------------------------------------------- C5
\* C5: once every part produced by the split (at least one, at most
\* number_of_parts) is downloaded and verified, CombineParts succeeds and the
\* output is the parts' bytes in index order (so its length is the sum of the
\* part lengths), also when the split produced fewer parts than
\* number_of_parts.
C5_CombineAllFragments ==
    ("verify" \in stageOk /\ Started("combine") /\ Len(partFiles) >= 1) =>
        /\ pc = "done"
        /\ finalFile = Concat(partsDir, Len(partFiles))
        /\ Len(finalFile) = TotalLen(partsDir, Len(partFiles))

\* ---------------------------------------------------------------- C6
\* C6 (as claimed): a completed run against a network that returns what was
\* uploaded writes an output equal to the source, byte for byte.
C6_RoundTrip ==
    (pc = "done" /\ netHonest) => finalFile = inputFile

\* C6 (amended): a completed run against a network that returns what was
\* uploaded writes the first min(L, fragment_size * number_of_parts) bytes
\* of the source; the output equals the source exactly when
\* L <= fragment_size * number_of_parts.
C6_RoundTripPrefix ==
    (pc = "done" /\ netHonest) =>
        /\ finalFile = SubSeq(inputFile, 1,
               Min(Len(inputFile), config.File.FragmentSize * config.File.NumberOfParts))
        /\ (finalFile = inputFile) <=>
               (Len(inputFile) <= config.File.FragmentSize * config.File.NumberOfParts)

\* a completed run of a source of several parts that was cut at the part limit
C6_Witness ==
    /\ pc = "done"
    /\ netHonest
    /\ Len(partFiles) >= 2
    /\ Len(inputFile) > config.File.FragmentSize * config.File.NumberOfParts
    /\ Len(finalFile) = config.File.FragmentSize * config.File.NumberOfParts

\* ---------------------------------------------------------------- C7
\* C7: SplitFile produces min(ceil(L/F), maxParts) parts, in source order,
\* whose lengths sum to min(L, F*maxParts); every part has length F except
\* possibly the last, and none is empty.
C7_SplitShape ==
    "split" \in stageOk =>
        LET L == Len(inputFile)
            F == config.File.FragmentSize
            N == Len(partFiles)
        IN  /\ N = Min(CeilDiv(L, F), config.File.NumberOfParts)
            /\ DOMAIN partsDir = 0..(N - 1)
            /\ \A k \in 1..N : partFiles[k] = k - 1
            /\ TotalLen(partsDir, N) = Min(L, F * config.File.NumberOfParts)
            /\ \A i \in 0..(N - 1) :
                  /\ Len(partsDir[i]) > 0
                  /\ i < N - 1 => Len(partsDir[i]) = F
                  /\ Len(partsDir[i]) <= F
                  /\ partsDir[i] = SubSeq(inputFile, i * F + 1, Min((i + 1) * F, L))

\* a split into several parts whose last part is shorter than the fragment size
C7_Witness ==
    /\ "split" \in stageOk
    /\ Len(partFiles) >= 2
    /\ Len(partsDir[Len(partFiles) - 1]) < config.File.FragmentSize

\* ---------------------------------------------------------------- C8
\* the wait min(2^(k-2), 30) seconds before attempt k > 1; none before attempt 1
ExpectedWait(k) ==
    IF k = 1 THEN Int64Zero
    ELSE Seconds(IF k - 2 >= 5 THEN 30 ELSE 2 ^ (k - 2))

\* C8: attempt 1 of a part is made without waiting, and attempt k > 1 is
\* preceded by a wait of exactly min(2^(k-2), 30) seconds, for every k.
C8_BackoffFormula ==
    pc = "us_merkle" => waited = ExpectedWait(retry + 1)

\* ---------------------------------------------------------------- C9
\* C9: a stage starts only as the successor, in the order split, upload,
\* download, verify, combine, of the stage started last, only after that
\* stage returned success, and never after an error was returned.
C9_StageOrder ==
    [][stageLog' # stageLog =>
          /\ Len(stageLog) < Len(Stages)
          /\ stageLog' = SubSeq(Stages, 1, Len(stageLog) + 1)
          /\ \A k \in 1..Len(stageLog) : stageLog[k] \in stageOk
          /\ pc # "failed"
          /\ err = Nil]_vars

\* all five stages ran, in order, each after the success of the one before
C9_Witness ==
    /\ pc = "done"
    /\ stageLog = Stages
    /\ stageOk = {"split", "upload", "download", "verify", "combine"}

\* ---------------------------------------------------------------- C10
AllPartsMatch ==
    \A k \in 1..Len(partFiles) :
        /\ (k - 1) \in DOMAIN downloadDir
        /\ MerkleRoot(partsDir[partFiles[k]]) = MerkleRoot(downloadDir[k - 1])

\* C10: the combine stage starts only if, for every part produced by the
\* split, the Merkle root of the original equals the Merkle root of the
\* downloaded part; when one differs VerifyParts returns an error and the
\* run fails in the verify stage.
C10_CombineOnlyVerified ==
    /\ Started("combine") => AllPartsMatch
    /\ (Started("verify") /\ ~AllPartsMatch) => (pc = "failed" /\ err.stage = "verify")

\* the first part matched, a later one did not, and the run failed in verify
C10_Witness ==
    /\ pc = "failed"
    /\ err = [stage |-> "verify", cause |-> "hash_mismatch"]
    /\ Len(partFiles) >= 2
    /\ MerkleRoot(partsDir[partFiles[1]]) = MerkleRoot(downloadDir[0])

\* ---------------------------------------------------------------- C11
DownloadFailed == pc = "failed" /\ err.stage = "download"

\* C11: DownloadParts asks for the roots of the manifest in order, once each,
\* and writes the data delivered for receipt i to slot i; the first failed
\* download ends the stage with an error naming that part (one-based, as the
\* message does), is not asked again, and no later root is asked for.
C11_DownloadInOrder ==
    Started("download") =>
        /\ Len(dlLog) <= Len(ret.rootHashes)
        /\ \A k \in 1..Len(dlLog) :
              /\ dlLog[k].slot = k - 1
              /\ dlLog[k].root = ret.rootHashes[k]
        /\ DOMAIN downloadDir = 0..(dl - 1)
        /\ \A i \in 0..(dl - 1) : downloadDir[i] = dlLog[i + 1].data
        /\ IF DownloadFailed
           THEN /\ Len(dlLog) = dl + 1
                /\ err = [stage |-> "download", part |-> Len(dlLog), cause |-> "network"]
           ELSE Len(dlLog) = dl
        /\ "download" \in stageOk => dl = Len(ret.rootHashes)

\* the second of several downloads failed after the first was stored in slot 0
C11_Witness ==
    /\ DownloadFailed
    /\ Len(ret.rootHashes) >= 3
    /\ Len(dlLog) = 2
    /\ DOMAIN downloadDir = {0}

\* ------------------------------------------------------------------ C12
Retrieved == Cardinality(DOMAIN downloadDir)

\* C12: a verification called with a different number of original parts than
\* downloaded parts never returns success.
C12_UnequalNeverVerified ==
    (verdict # NoVerdict /\ Len(partFiles) >= 1 /\ Len(partFiles) # Retrieved)
        => ~verdict.ok

\* ------------------------------------------------------------------ C14
\* the step in which an upload attempt creates uploadCtx and calls Upload
TransferStep ==
    /\ pc = "us_upload"
    /\ (netLog' # netLog \/ lastErr' \in {"timeout", "network"})

\* C14: the deadline of every upload attempt is the earlier of the attempt's
\* own timeout (the time of the attempt plus TimeoutMinutes) and the deadline
\* UploadParts set for the whole upload when it started; it is never later
\* than that overall deadline.
C14_AttemptDeadline ==
    [][TransferStep =>
          /\ deadline = config.Upload.TimeoutMinutes
          /\ uploadCtx' = Min(now + config.Upload.TimeoutMinutes, deadline)
          /\ uploadCtx' <= deadline]_vars

C14_Witness ==
    /\ pc = "up_retry"
    /\ lastErr = "timeout"
    /\ config.Upload.TimeoutMinutes = 2
    /\ now = 2
    /\ uploadCtx = deadline
    /\ Len(txHashes) = 1
    /\ pos = 1

\* ------------------------------------------------------------------ C15
\* the step in which uploadSingleFile is called for part file pos
AttemptStart == pc = "us_merkle" /\ attempts' = attempts + 1

AttemptEnds == pc \in {"us_merkle", "us_upload"} /\ pc' \in {"up_retry", "up_check"}

IsPrefix(s, t) == Len(s) <= Len(t) /\ SubSeq(t, 1, Len(s)) = s

\* C16: while UploadParts runs, txHashes and rootHashes only grow at the end:
\* an upload attempt that fails leaves both unchanged, an attempt that
\* succeeds appends exactly one hash to each, and no other step touches them.
C16_ManifestAppendOnly ==
    [][(pc \in UploadPcs) =>
          (/\ IsPrefix(txHashes, txHashes')
           /\ IsPrefix(rootHashes, rootHashes')
           /\ IF AttemptEnds /\ lastErr' = "nil"
              THEN Len(txHashes') = Len(txHashes) + 1
                   /\ Len(rootHashes') = Len(rootHashes) + 1
              ELSE txHashes' = txHashes /\ rootHashes' = rootHashes)]_vars

C16_Witness ==
    /\ pc = "up_check"
    /\ lastErr = "nil"
    /\ Len(txHashes) = 2
    /\ Len(rootHashes) = 2
    /\ attempts = 2

\* ------------------------------------------------------------------ C17
\* the step in which UploadParts sleeps between two batches
CooldownStep == pc = "up_cooldown" /\ cooldowns' = cooldowns + 1

\* C17: UploadParts sleeps between two batches only: when it does, every part
\* file of the batch just done has a receipt, part files remain and none of
\* them was attempted; and a successful upload of N >= 1 part files with
\* batch size B has slept ceil(N/B) - 1 times.
C17_CooldownBetweenBatches ==
    [][/\ CooldownStep =>
             /\ end < Len(partFiles)
             /\ \A j \in (start + 1)..end : HasReceipt(partFiles[j])
             /\ \A j \in (end + 1)..Len(partFiles) : partFiles[j] \notin attempted
       /\ (UploadReturned' /\ "upload" \in stageOk' /\ Len(partFiles) >= 1) =>
             cooldowns' = CeilDiv(Len(partFiles), config.Upload.BatchSize) - 1]_vars

\* ------------------------------------------------------------------ C18
\* C18: when an upload attempt reaches the transfer, the Merkle root of its
\* part file has been computed; an attempt whose Merkle root computation
\* fails ends without a transfer; and the root hash of receipt k is always
\* the Merkle root of the content of part file k.
C18_RootBeforeTransfer ==
    [][/\ (pc = "us_upload") => rootHash = MerkleRoot(partsDir[partFiles[pos + 1]])
       /\ (AttemptStart /\ pc' # "us_upload") =>
             /\ pc' = "up_retry" /\ lastErr' = "merkle"
             /\ netLog' = netLog /\ txHashes' = txHashes /\ rootHashes' = rootHashes
       /\ (pc \in UploadPcs) =>
             \A k \in 1..Len(rootHashes') :
                 rootHashes'[k] = MerkleRoot(partsDir[partFiles[k]])]_vars

C18_Witness ==
    /\ pc = "up_retry"
    /\ lastErr = "merkle"
    /\ pos = 1
    /\ Len(netLog) = 1
    /\ rootHashes = <<MerkleRoot(partsDir[partFiles[1]])>>
    /\ MerkleRoot(partsDir[partFiles[2]]) # rootHashes[1]

\* ------------------------------------------------------------------ C20
\* C20: once called, UploadParts returns (with the manifest or with an error)
\* for every list of part files, BatchSize >= 1 and MaxRetries >= 0, as long
\* as its steps return; and each pass of the batch loop moves start to a
\* strictly later part index.
C20_UploadTerminates ==
    /\ (pc \in UploadPcs) ~> UploadReturned
    /\ [][(pc = "up_cooldown" /\ pc' = "up_batch") => start' > start]_vars

C20_Witness ==
    /\ UploadReturned
    /\ "upload" \in stageOk
    /\ config.Upload.BatchSize = 1
    /\ config.Upload.MaxRetries = 3
    /\ cooldowns = 2
    /\ Len(ret.txHashes) = 3

\* ------------------------------------------------------------------ C19
ManifestWrong ==
    \E k \in 1..Len(partFiles) : ret.rootHashes[k] # MerkleRoot(partsDir[partFiles[k]])

FirstMismatch ==
    CHOOSE k \in 1..Len(partFiles) :
        /\ ~ ((k - 1) \in DOMAIN downloadDir /\ partsDir[partFiles[k]] = downloadDir[k - 1])
        /\ \A j \in 1..(k - 1) :
              (j - 1) \in DOMAIN downloadDir /\ partsDir[partFiles[j]] = downloadDir[j - 1]

\* C19: what VerifyParts returns is fixed by the contents of the original and
\* the downloaded parts alone, whatever root hashes the manifest carries:
\* success exactly when every original has a downloaded part of the same
\* content, and otherwise an error about the first part that has none.
C19_VerdictFromContents ==
    verdict # NoVerdict =>
        IF \A k \in 1..Len(partFiles) :
               (k - 1) \in DOMAIN downloadDir /\ partsDir[partFiles[k]] = downloadDir[k - 1]
        THEN verdict = Verified
        ELSE /\ ~verdict.ok
             /\ verdict.part = FirstMismatch - 1

C19_Witness ==
    /\ verdict # NoVerdict
    /\ Len(partFiles) >= 2
    /\ ManifestWrong
    /\ verdict.ok

\* ------------------------------------------------------------------ C21
\* entry k of both lists comes from one accepted upload: the transaction hash
\* names it and the root hash is the Merkle root of the data it carried
SameAttempt(txs, roots) ==
    /\ Len(txs) = Len(roots)
    /\ \A k \in 1..Len(txs) :
          /\ txs[k] \in 1..Len(netLog)
          /\ roots[k] = MerkleRoot(netLog[txs[k]].data)
          /\ \A j \in 1..(k - 1) : txs[j] # txs[k]

\* C21: in every state txHashes and rootHashes have the same length and
\* entry k of both comes from the same successful upload attempt, and so do
\* the lists UploadParts returned; the summary loop of main, which indexes
\* rootHashes by every index of txHashes, stays inside rootHashes.
C21_HashListsAligned ==
    /\ SameAttempt(txHashes, rootHashes)
    /\ SameAttempt(ret.txHashes, ret.rootHashes)
    /\ pc = "done" => DOMAIN ret.txHashes \subseteq DOMAIN ret.rootHashes

C21_Witness ==
    /\ pc = "done"
    /\ Len(ret.txHashes) = 3
    /\ ret.rootHashes[1] # ret.rootHashes[2]
    /\ retry = 2
    /\ attempts = 3

====
